---- MODULE Spec2Model ----
(***************************************************************************)
(* Verification model of the CoAgentics web client: the onboarding wizard, *)
(* the chat interface with its chat-history store, the legacy API client's *)
(* response interceptors and the voice-recording hook.                     *)
(*                                                                         *)
(* Each component has its own specification (SpecOnboarding, SpecChat,     *)
(* SpecStore, SpecApi, SpecVoice); the variables of the other components   *)
(* stay unchanged in it.                                                   *)
(***************************************************************************)
EXTENDS Integers, Sequences, FiniteSets, TLC

VARIABLES
    \* ---- onboarding wizard (OnboardingForm.tsx) and auth context ----
    currentUser,        \* useAuth().currentUser: a uid or NoUser
    currentStep,        \* useState(0)
    loading,            \* useState(false)
    errors,             \* useState({}): the set of keys of the errors record
    formData,           \* useState<FormData>
    submitPc,           \* position of the async handleSubmit
    pendingProfile,     \* argument of the createUserProfile call in flight
    editsWhileSaving,   \* number of field edits made while a save is in flight
    previousCount,      \* number of Previous presses so far
    users,              \* Firestore collection 'users': uid -> document
    userProfile,        \* AuthContext.userProfile
    needsOnboarding,    \* AuthContext.needsOnboarding
    route,              \* the page shown: "/onboarding" or "/"
    \* ---- chat interface (ChatInterface) and chat-history store ----
    messages,           \* useState<Message[]>
    input,              \* useState('')
    isLoading,          \* useState(false)
    apiVersion,         \* useState('v2')
    sessionId,          \* useState<string | null>(null)
    currentChatHistory, \* useState<ChatHistory | null>: its session_id
    lsSessionId,        \* localStorage['coagentics_session_id']
    sendPc,             \* position of the async handleSend
    call,               \* what the handleSend in flight closed over
    chatHistory,        \* Firestore collection 'chat-history': id -> document
    chatHistories,      \* ChatHistoryDropdown: the list it last fetched
    issued,             \* session ids the backend has handed out
    exchanges,          \* per session id: successful exchanges so far
    sendCount,          \* number of messages sent so far
    storeOp,            \* the last FirestoreService chat-history call
    \* ---- legacy API client (lib/api.ts) ----
    authToken,          \* localStorage['auth_token']
    location,           \* window.location.href
    navigations,        \* number of assignments to window.location.href
    requests,           \* the HTTP requests of the client, per slot
    \* ---- voice recording (useVoiceRecording, VoiceRecorder) ----
    hasPermission,      \* useState<boolean | null>(null)
    isRecording,        \* useState(false)
    isProcessing,       \* useState(false)
    recordingDuration,  \* useState(0)
    mediaRecorderRef,   \* useRef<MediaRecorder | null>: index into recorders
    streamRef,          \* useRef<MediaStream | null>: index into streams
    durationIntervalRef,\* useRef<Timeout | null>: index into intervals
    streams,            \* the media streams obtained, in order
    recorders,          \* the MediaRecorders created, in order
    intervals,          \* the intervals installed: TRUE while running
    calls,              \* the startRecording / requestPermission calls
    stopEvents,         \* recorders whose stop event is queued
    mounted,            \* VoiceRecorder is mounted
    audioChunksRef,     \* useRef<Blob[]>: the chunks buffered
    deliveredBlob,      \* the blob last handed to the callback: its chunks
    pressed,            \* the mouse button is held on the record button
    \* ---- auth context (AuthProvider) and the route guards ----
    authUser,           \* the identity provider's signed-in user
    authLoading,        \* AuthProvider: useState(true) `loading`
    checks,             \* the checkUserProfile calls, in order of start
    guardPush           \* the router.push a guard made in the last step

onbVars == <<currentUser, currentStep, loading, errors, formData, submitPc,
             pendingProfile, editsWhileSaving, previousCount, users,
             userProfile, needsOnboarding, route>>

chatVars == <<messages, input, isLoading, apiVersion, sessionId,
              currentChatHistory, lsSessionId, sendPc, call, chatHistory,
              chatHistories, issued, exchanges, sendCount>>

storeVars == <<storeOp>>

apiVars == <<authToken, location, navigations, requests>>

voiceVars == <<hasPermission, isRecording, isProcessing, recordingDuration,
               mediaRecorderRef, streamRef, durationIntervalRef, streams,
               recorders, intervals, calls, stopEvents, mounted,
               audioChunksRef, deliveredBlob, pressed>>

authVars == <<authUser, authLoading, checks, guardPush>>

vars == <<onbVars, chatVars, storeVars, apiVars, voiceVars, authVars>>

(***************************************************************************)
(* Bounds and input domains                                                *)
(***************************************************************************)
\* edits the user makes while handleSubmit awaits the store
MaxEditsWhileSaving == 1
\* Previous presses in one run of the wizard
MaxPrevious == 1

\* messages the user sends in the chat
MaxSends == 2
\* session ids the backend can hand out
MaxSessions == 2
\* HTTP requests in flight at once
MaxRequests == 2
\* auth-state callbacks and profile refreshes
MaxAuthEvents == 3
\* redirects to the login page
MaxNavigations == 2
\* startRecording / requestPermission calls
MaxCalls == 2
\* writes to the user-profile store in one run
MaxWrites == 3

NoUser == "null"
Uid == "u1"

\* text inputs are character sequences: empty, blank, padded non-blank
Texts == { <<>>, <<" ">>, <<" ", "A">> }
\* numeric inputs (income, kids count, claim limits): every guard on them is
\* `<= 0`, `< 1` or `> 0`, so 0 stands for any entry that is not positive
\* (parseInt(...) || 0) and 1 for any positive one
Amounts == {0, 1}

MinAge == 18
MaxAge == 100
DefaultAge == 25
Ages == {MinAge - 1, DefaultAge, MaxAge, MaxAge + 1}

EmploymentStatuses == {"salaried", "self-employed", "unemployed"}
\* '' (the "Select ..." option) or one entry of INDUSTRY_TYPES / INDIAN_STATES
IndustryChoices == {"", "Technology"}
StateChoices == {"", "Kerala"}

\* STEPS.length
NumSteps == 5

(***************************************************************************)
(* Pure helpers                                                            *)
(***************************************************************************)
RECURSIVE TrimStart(_)
TrimStart(s) ==
    IF s # <<>> /\ Head(s) = " " THEN TrimStart(Tail(s)) ELSE s

RECURSIVE TrimEnd(_)
TrimEnd(s) ==
    IF s # <<>> /\ s[Len(s)] = " " THEN TrimEnd(SubSeq(s, 1, Len(s) - 1)) ELSE s

\* String.prototype.trim
Trim(s) == TrimEnd(TrimStart(s))

\* object spread { ...a, ...b }
Spread(a, b) ==
    [k \in DOMAIN a \cup DOMAIN b |-> IF k \in DOMAIN b THEN b[k] ELSE a[k]]

\* what `cond && {...}` contributes to a spread
EmptyObj == [k \in {} |-> 0]

Undefined == "undefined"

\* null where a profile object is expected (no properties)
NoProfile == EmptyObj

\* docSnap.exists() for a collection modelled as a function id -> document
Exists(coll, id) == id \in DOMAIN coll

\* the string-valued properties that callers may leave undefined
UndefinableKeys == {"industryType"}

\* removeUndefinedValues (firestore.ts): a shallow copy without the
\* properties whose value is undefined
removeUndefinedValues(obj) ==
    [k \in {f \in DOMAIN obj : ~(f \in UndefinableKeys /\ obj[f] = Undefined)}
        |-> obj[k]]

\* `new Date()` at a write to a collection: later than every timestamp the
\* collection holds
ProfileClock(coll) ==
    LET stamps == {0} \cup {coll[u].updatedAt :
                               u \in {x \in DOMAIN coll :
                                         "updatedAt" \in DOMAIN coll[x]}}
    IN  1 + CHOOSE m \in stamps : \A t \in stamps : t <= m

\* FirestoreService.createUserProfile: setDoc of the cleaned profile with
\* createdAt and updatedAt set to now; setDoc replaces an existing document
createUserProfile(coll, profile, now) ==
    Spread(coll,
           [u \in {profile.uid} |->
               removeUndefinedValues(
                   Spread(profile, [createdAt |-> now, updatedAt |-> now]))])

\* FirestoreService.updateUserProfile: updateDoc merges the named fields
\* and updatedAt into the existing document
updateUserProfile(coll, uid, updates, now) ==
    [coll EXCEPT ![uid] = Spread(@, Spread(updates, [updatedAt |-> now]))]

\* FirestoreService.completeProfile
completeProfile(coll, uid, now) ==
    updateUserProfile(coll, uid,
                      [profileCompleted |-> TRUE, updatedAt |-> now], now)

(***************************************************************************)
(* Onboarding wizard                                                       *)
(***************************************************************************)
InitialFormData(displayName) ==
    [ name |-> displayName,
      age |-> DefaultAge,
      employmentStatus |-> "salaried",
      industryType |-> "",
      monthlyIncome |-> 0,
      dependents |-> [kids |-> FALSE],
      kidsCount |-> 0,
      location |-> [state |-> "", city |-> <<>>],
      insurance |-> [life |-> FALSE, health |-> FALSE],
      insuranceCoverage |-> [healthClaimLimit |-> 0, lifeClaimLimit |-> 0] ]

\* validateStep without the city rule of the location step
validateStep_NoCityRule(fd, step) ==
    CASE step = 0 ->
            (IF Trim(fd.name) = <<>> THEN {"name"} ELSE {})
            \cup (IF fd.age < MinAge \/ fd.age > MaxAge THEN {"age"} ELSE {})
      [] step = 1 ->
            (IF fd.employmentStatus = "salaried" /\ fd.industryType = ""
             THEN {"industryType"} ELSE {})
            \cup (IF fd.employmentStatus # "unemployed" /\ fd.monthlyIncome <= 0
                  THEN {"monthlyIncome"} ELSE {})
      [] step = 2 ->
            (IF fd.dependents.kids /\ fd.kidsCount < 1 THEN {"kidsCount"} ELSE {})
      [] step = 3 ->
            (IF fd.location.state = "" THEN {"state"} ELSE {})
      [] step = 4 ->
            (IF fd.insurance.health /\ fd.insuranceCoverage.healthClaimLimit <= 0
             THEN {"healthClaimLimit"} ELSE {})
            \cup (IF fd.insurance.life /\ fd.insuranceCoverage.lifeClaimLimit <= 0
                  THEN {"lifeClaimLimit"} ELSE {})
      [] OTHER -> {}

\* validateStep asking for a positive income whatever the employment status
validateStep_IncomeAlways(fd, step) ==
    CASE step = 0 ->
            (IF Trim(fd.name) = <<>> THEN {"name"} ELSE {})
            \cup (IF fd.age < MinAge \/ fd.age > MaxAge THEN {"age"} ELSE {})
      [] step = 1 ->
            (IF fd.employmentStatus = "salaried" /\ fd.industryType = ""
             THEN {"industryType"} ELSE {})
            \cup (IF fd.monthlyIncome <= 0 THEN {"monthlyIncome"} ELSE {})
      [] step = 2 ->
            (IF fd.dependents.kids /\ fd.kidsCount < 1 THEN {"kidsCount"} ELSE {})
      [] step = 3 ->
            (IF fd.location.state = "" THEN {"state"} ELSE {})
            \cup (IF Trim(fd.location.city) = <<>> THEN {"city"} ELSE {})
      [] step = 4 ->
            (IF fd.insurance.health /\ fd.insuranceCoverage.healthClaimLimit <= 0
             THEN {"healthClaimLimit"} ELSE {})
            \cup (IF fd.insurance.life /\ fd.insuranceCoverage.lifeClaimLimit <= 0
                  THEN {"lifeClaimLimit"} ELSE {})
      [] OTHER -> {}

\* validateStep checking the health claim limit with `< 0` instead of `<= 0`
validateStep_HealthLimitZeroOk(fd, step) ==
    CASE step = 0 ->
            (IF Trim(fd.name) = <<>> THEN {"name"} ELSE {})
            \cup (IF fd.age < MinAge \/ fd.age > MaxAge THEN {"age"} ELSE {})
      [] step = 1 ->
            (IF fd.employmentStatus = "salaried" /\ fd.industryType = ""
             THEN {"industryType"} ELSE {})
            \cup (IF fd.employmentStatus # "unemployed" /\ fd.monthlyIncome <= 0
                  THEN {"monthlyIncome"} ELSE {})
      [] step = 2 ->
            (IF fd.dependents.kids /\ fd.kidsCount < 1 THEN {"kidsCount"} ELSE {})
      [] step = 3 ->
            (IF fd.location.state = "" THEN {"state"} ELSE {})
            \cup (IF Trim(fd.location.city) = <<>> THEN {"city"} ELSE {})
      [] step = 4 ->
            (IF fd.insurance.health /\ fd.insuranceCoverage.healthClaimLimit < 0
             THEN {"healthClaimLimit"} ELSE {})
            \cup (IF fd.insurance.life /\ fd.insuranceCoverage.lifeClaimLimit <= 0
                  THEN {"lifeClaimLimit"} ELSE {})
      [] OTHER -> {}

\* validateStep: the keys of newErrors for the given step
validateStep(fd, step) ==
    CASE step = 0 ->
            (IF Trim(fd.name) = <<>> THEN {"name"} ELSE {})
            \cup (IF fd.age < MinAge \/ fd.age > MaxAge THEN {"age"} ELSE {})
      [] step = 1 ->
            (IF fd.employmentStatus = "salaried" /\ fd.industryType = ""
             THEN {"industryType"} ELSE {})
            \cup (IF fd.employmentStatus # "unemployed" /\ fd.monthlyIncome <= 0
                  THEN {"monthlyIncome"} ELSE {})
      [] step = 2 ->
            (IF fd.dependents.kids /\ fd.kidsCount < 1 THEN {"kidsCount"} ELSE {})
      [] step = 3 ->
            (IF fd.location.state = "" THEN {"state"} ELSE {})
            \cup (IF Trim(fd.location.city) = <<>> THEN {"city"} ELSE {})
      [] step = 4 ->
            (IF fd.insurance.health /\ fd.insuranceCoverage.healthClaimLimit <= 0
             THEN {"healthClaimLimit"} ELSE {})
            \cup (IF fd.insurance.life /\ fd.insuranceCoverage.lifeClaimLimit <= 0
                  THEN {"lifeClaimLimit"} ELSE {})
      [] OTHER -> {}

\* handleSubmit with the optional fields placed in the base profile
BuildProfile_OptionalsInBase(uid, fd) ==
    [ uid |-> uid,
      name |-> fd.name,
      age |-> fd.age,
      employmentStatus |-> fd.employmentStatus,
      industryType |-> fd.industryType,
      monthlyIncome |-> fd.monthlyIncome,
      dependents |-> fd.dependents,
      kidsCount |-> fd.kidsCount,
      location |-> fd.location,
      insurance |-> fd.insurance,
      insuranceCoverage |-> fd.insuranceCoverage,
      profileCompleted |-> TRUE ]

\* handleSubmit, lines 141-167: the profile object handed to createUserProfile
BuildProfile(uid, fd) ==
    Spread(
      Spread(
        [ uid |-> uid,
          name |-> fd.name,
          age |-> fd.age,
          employmentStatus |-> fd.employmentStatus,
          monthlyIncome |-> fd.monthlyIncome,
          dependents |-> fd.dependents,
          location |-> fd.location,
          insurance |-> fd.insurance,
          insuranceCoverage |-> fd.insuranceCoverage,
          profileCompleted |-> TRUE ],
        IF fd.employmentStatus = "salaried" /\ fd.industryType # ""
        THEN [industryType |-> fd.industryType] ELSE EmptyObj),
      IF fd.dependents.kids /\ fd.kidsCount > 0
      THEN [kidsCount |-> fd.kidsCount] ELSE EmptyObj)

\* updateFormData as wired to the inputs that renderStep shows on `step`
FieldEdits(fd, step) ==
    CASE step = 0 ->
            {[fd EXCEPT !.name = v] : v \in Texts}
            \cup {[fd EXCEPT !.age = v] : v \in Ages}
      [] step = 1 ->
            {[fd EXCEPT !.employmentStatus = v,
                        !.industryType = IF v # "salaried" THEN "" ELSE @]
                : v \in EmploymentStatuses}
            \cup (IF fd.employmentStatus = "salaried"
                  THEN {[fd EXCEPT !.industryType = v] : v \in IndustryChoices}
                  ELSE {})
            \cup (IF fd.employmentStatus # "unemployed"
                  THEN {[fd EXCEPT !.monthlyIncome = v] : v \in Amounts}
                  ELSE {})
      [] step = 2 ->
            {[fd EXCEPT !.dependents.kids = v,
                        !.kidsCount = IF v THEN @ ELSE 0] : v \in BOOLEAN}
            \cup (IF fd.dependents.kids
                  THEN {[fd EXCEPT !.kidsCount = v] : v \in Amounts}
                  ELSE {})
      [] step = 3 ->
            {[fd EXCEPT !.location.state = v] : v \in StateChoices}
            \cup {[fd EXCEPT !.location.city = v] : v \in Texts}
      [] step = 4 ->
            {[fd EXCEPT !.insurance.life = v] : v \in BOOLEAN}
            \cup {[fd EXCEPT !.insurance.health = v] : v \in BOOLEAN}
            \cup (IF fd.insurance.life
                  THEN {[fd EXCEPT !.insuranceCoverage.lifeClaimLimit = v]
                            : v \in Amounts}
                  ELSE {})
            \cup (IF fd.insurance.health
                  THEN {[fd EXCEPT !.insuranceCoverage.healthClaimLimit = v]
                            : v \in Amounts}
                  ELSE {})
      [] OTHER -> {}

InitOnboarding ==
    /\ currentUser \in {NoUser, Uid}
    /\ currentStep = 0
    /\ loading = FALSE
    /\ errors = {}
    /\ formData \in {InitialFormData(n) : n \in {<<>>, <<" ", "A">>}}
    /\ submitPc = "idle"
    /\ pendingProfile = NoProfile
    /\ editsWhileSaving = 0
    /\ previousCount = 0
    /\ users = EmptyObj
    /\ userProfile = NoProfile
    /\ needsOnboarding = (currentUser # NoUser)
    /\ route = "/onboarding"

\* an input's onChange on the step shown
EditField ==
    /\ route = "/onboarding"
    /\ IF submitPc = "idle"
       THEN editsWhileSaving' = editsWhileSaving
       ELSE /\ editsWhileSaving < MaxEditsWhileSaving
            /\ editsWhileSaving' = editsWhileSaving + 1
    /\ \E fd \in FieldEdits(formData, currentStep) :
          /\ fd # formData
          /\ formData' = fd
    /\ UNCHANGED <<currentUser, currentStep, loading, errors, submitPc,
                   pendingProfile, previousCount, users, userProfile,
                   needsOnboarding, route>>

\* handleNext on a step before the last, or on any step when validation fails
HandleNextStep ==
    /\ route = "/onboarding"
    /\ ~loading
    /\ errors' = validateStep(formData, currentStep)
    /\ IF errors' = {} /\ currentStep < NumSteps - 1
       THEN currentStep' = currentStep + 1
       ELSE /\ errors' # {}
            /\ currentStep' = currentStep
    /\ UNCHANGED <<currentUser, loading, formData, submitPc, pendingProfile,
                   editsWhileSaving, previousCount, users, userProfile,
                   needsOnboarding, route>>

\* handleNext on the last step with a valid step: handleSubmit up to its
\* first await (or its early return when nobody is signed in)
HandleNextSubmit ==
    /\ route = "/onboarding"
    /\ ~loading
    /\ currentStep = NumSteps - 1
    /\ validateStep(formData, currentStep) = {}
    /\ errors' = {}
    /\ IF currentUser = NoUser
       THEN UNCHANGED <<loading, submitPc, pendingProfile>>
       ELSE /\ loading' = TRUE
            /\ pendingProfile' = BuildProfile(currentUser, formData)
            /\ submitPc' = "creating"
    /\ UNCHANGED <<currentUser, currentStep, formData, editsWhileSaving,
                   previousCount, users, userProfile, needsOnboarding, route>>

handlePrevious ==
    /\ route = "/onboarding"
    /\ currentStep > 0
    /\ previousCount < MaxPrevious
    /\ previousCount' = previousCount + 1
    /\ currentStep' = currentStep - 1
    /\ UNCHANGED <<currentUser, loading, errors, formData, submitPc,
                   pendingProfile, editsWhileSaving, users, userProfile,
                   needsOnboarding, route>>

\* FirestoreService.createUserProfile resolves: setDoc replaces the document
CreateProfileOk ==
    /\ submitPc = "creating"
    /\ users' = createUserProfile(users, pendingProfile, ProfileClock(users))
    /\ submitPc' = "refreshing"
    /\ UNCHANGED <<currentUser, currentStep, loading, errors, formData,
                   pendingProfile, editsWhileSaving, previousCount,
                   userProfile, needsOnboarding, route>>

\* createUserProfile rejects and handleSubmit has no finally block
CreateProfileFail_NoFinally ==
    /\ submitPc = "creating"
    /\ errors' = {"submit"}
    /\ submitPc' = "idle"
    /\ editsWhileSaving' = 0
    /\ UNCHANGED <<currentUser, currentStep, loading, formData,
                   pendingProfile, previousCount, users, userProfile,
                   needsOnboarding, route>>

\* createUserProfile rejects: catch and finally of handleSubmit
CreateProfileFail ==
    /\ submitPc = "creating"
    /\ errors' = {"submit"}
    /\ loading' = FALSE
    /\ submitPc' = "idle"
    /\ editsWhileSaving' = 0
    /\ UNCHANGED <<currentUser, currentStep, formData, pendingProfile,
                   previousCount, users, userProfile, needsOnboarding, route>>

\* refreshUserProfile -> checkUserProfile resolves, then router.push('/') and
\* the finally block.  readOk: getUserProfile succeeded; checkOk: the read
\* inside FirestoreService.needsOnboarding succeeded.
RefreshAndNavigate ==
    /\ submitPc = "refreshing"
    /\ \E readOk \in BOOLEAN, checkOk \in BOOLEAN :
          IF readOk
          THEN /\ userProfile' = IF Exists(users, currentUser)
                                 THEN users[currentUser] ELSE NoProfile
               /\ needsOnboarding' =
                     IF checkOk
                     THEN (~Exists(users, currentUser)
                           \/ ~users[currentUser].profileCompleted)
                     ELSE TRUE
          ELSE /\ checkOk
               /\ userProfile' = NoProfile
               /\ needsOnboarding' = TRUE
    /\ route' = "/"
    /\ loading' = FALSE
    /\ submitPc' = "done"
    /\ UNCHANGED <<currentUser, currentStep, errors, formData, pendingProfile,
                   editsWhileSaving, previousCount, users>>

(***************************************************************************)
(* Chat interface and chat-history store                                   *)
(***************************************************************************)
NoSession == 0
SessionIds == 1..MaxSessions
ApiVersions == {"v2", "v1", "demo"}

\* message texts, as character sequences
Greeting == <<"G">>
ReplyText == <<"R">>
Unavailable == <<"5", "0", "3">>
RateLimited == <<"4", "2", "9">>
GenericError == <<"E">>
DefaultTitle == <<"C">>
HttpStatuses == {503, 429, 500}

\* the seed message of useState<Message[]> and of clearChat
SeedMessage ==
    [content |-> Greeting, role |-> "assistant", agent |-> "financial_assistant"]

UserMessage(text) ==
    [content |-> Trim(text), role |-> "user", agent |-> Undefined]

AssistantMessage(agentUsed) ==
    [content |-> ReplyText, role |-> "assistant", agent |-> agentUsed]

\* the catch block of handleSend without its status tests
ErrorContent_Generic(status) == GenericError

\* the catch block of handleSend: the text is chosen by the HTTP status
ErrorContent(status) ==
    IF status = 503 THEN Unavailable
    ELSE IF status = 429 THEN RateLimited
    ELSE GenericError

ErrorMessage(status) ==
    [content |-> ErrorContent(status), role |-> "assistant", agent |-> "error"]

\* saveChatHistoryDirectly, lines 99-118: Message -> ChatMessage, the agent
\* copied only when it is set
ToChatMessage(msg) ==
    IF msg.agent # Undefined
    THEN [content |-> msg.content, role |-> msg.role, agent |-> msg.agent]
    ELSE [content |-> msg.content, role |-> msg.role]

ToChatMessages(msgs) == [i \in 1..Len(msgs) |-> ToChatMessage(msgs[i])]

\* loadChatHistory, lines 163-170: ChatMessage -> Message
FromChatMessage(cm) ==
    [content |-> cm.content, role |-> cm.role,
     agent |-> IF "agent" \in DOMAIN cm THEN cm.agent ELSE Undefined]

FromChatMessages(cms) == [i \in 1..Len(cms) |-> FromChatMessage(cms[i])]

\* saveChatHistoryDirectly, lines 121-124: first user message, else a date
TitleOf(msgs) ==
    LET users_ == {i \in 1..Len(msgs) : msgs[i].role = "user"}
    IN IF users_ = {} THEN DefaultTitle
       ELSE msgs[CHOOSE i \in users_ : \A j \in users_ : i <= j].content

\* doc(db, CHAT_HISTORY_COLLECTION, sessionId): the document id
ChatDocId(coll, sid) == sid

\* FirestoreService.saveChatHistory: setDoc replaces the whole document
saveChatHistory(coll, userId, sid, chatMessages, title) ==
    Spread(coll,
           [d \in {ChatDocId(coll, sid)} |->
               removeUndefinedValues(
                 [ user_id |-> userId,
                   session_id |-> sid,
                   chat_data |-> chatMessages,
                   title |-> IF title = <<>> THEN DefaultTitle ELSE title ])])

\* FirestoreService.updateChatHistory: updateDoc merges chat_data into the
\* existing document (and rejects when there is none)
CanUpdateChatHistory(coll, sid) == Exists(coll, ChatDocId(coll, sid))

updateChatHistory_Append(coll, sid, chatMessages) ==
    [coll EXCEPT ![ChatDocId(coll, sid)] =
        [@ EXCEPT !.chat_data = @ \o chatMessages]]

updateChatHistory(coll, sid, chatMessages) ==
    [coll EXCEPT ![ChatDocId(coll, sid)] =
        Spread(@, removeUndefinedValues([chat_data |-> chatMessages]))]

\* FirestoreService.deleteChatHistory
deleteChatHistory(coll, id) ==
    [d \in DOMAIN coll \ {id} |-> coll[d]]

\* FirestoreService.getUserChatHistory: the documents of one user
getUserChatHistory(coll, userId) ==
    [d \in {x \in DOMAIN coll : coll[x].user_id = userId} |-> coll[d]]

IdleCall ==
    [ messages |-> <<>>, sessionId |-> NoSession, cch |-> NoSession,
      userMessage |-> UserMessage(<<>>), version |-> "v2",
      saveSid |-> NoSession, saveMsgs |-> <<>> ]

InitChat ==
    /\ messages = <<SeedMessage>>
    /\ input = <<>>
    /\ isLoading = FALSE
    /\ apiVersion = "v2"
    /\ sessionId = NoSession
    /\ currentChatHistory = NoSession
    /\ lsSessionId = NoSession
    /\ sendPc = "idle"
    /\ call = IdleCall
    /\ chatHistory = EmptyObj
    /\ chatHistories = EmptyObj
    /\ issued = {}
    /\ exchanges = [s \in SessionIds |-> 0]
    /\ sendCount = 0

\* textarea onChange
TypeInput ==
    /\ \E t \in Texts : t # input /\ input' = t
    /\ UNCHANGED <<messages, isLoading, apiVersion, sessionId,
                   currentChatHistory, lsSessionId, sendPc, call, chatHistory,
                   chatHistories, issued, exchanges, sendCount>>

\* the radio buttons of the settings panel
SetApiVersion ==
    /\ \E v \in ApiVersions : v # apiVersion /\ apiVersion' = v
    /\ UNCHANGED <<messages, input, isLoading, sessionId, currentChatHistory,
                   lsSessionId, sendPc, call, chatHistory, chatHistories,
                   issued, exchanges, sendCount>>

\* the guard of handleSend without its isLoading test
CanSend_IgnoresLoading(text, busy) == Trim(text) # <<>>

\* the guard of handleSend: `if (!input.trim() || isLoading) return`
CanSend(text, busy) == Trim(text) # <<>> /\ ~busy

\* handleSend (the button or the Enter key) returning at its guard
HandleSendIgnored ==
    /\ ~CanSend(input, isLoading)
    /\ UNCHANGED <<messages, input, isLoading, apiVersion, sessionId,
                   currentChatHistory, lsSessionId, sendPc, call, chatHistory,
                   chatHistories, issued, exchanges, sendCount>>

\* handleSend up to the request (the profile fetch of the v2 branch changes
\* no state and is folded into the request)
HandleSend ==
    /\ CanSend(input, isLoading)
    /\ sendCount < MaxSends
    /\ sendCount' = sendCount + 1
    /\ messages' = Append(messages, UserMessage(input))
    /\ input' = <<>>
    /\ isLoading' = TRUE
    /\ sendPc' = "awaitReply"
    /\ call' = [IdleCall EXCEPT !.messages = messages,
                                !.sessionId = sessionId,
                                !.cch = currentChatHistory,
                                !.userMessage = UserMessage(input),
                                !.version = apiVersion]
    /\ UNCHANGED <<apiVersion, sessionId, currentChatHistory, lsSessionId,
                   chatHistory, chatHistories, issued, exchanges>>

\* the session id a reply can carry.  The v2 backend echoes the id it was
\* sent and hands out an unused one otherwise; a v1 reply may carry any id or
\* none; the demo endpoint returns none.
ReplySessionIds ==
    IF call.version = "v2"
    THEN IF call.sessionId # NoSession THEN {call.sessionId}
         ELSE SessionIds \ issued
    ELSE IF call.version = "v1" THEN SessionIds \cup {NoSession}
    ELSE {NoSession}

\* handleSend after a successful reply, up to the await inside
\* saveChatHistoryDirectly (or to the finally block when nothing is saved)
ReplyOk ==
    /\ sendPc = "awaitReply"
    /\ \E rsid \in ReplySessionIds :
        LET assistantMessage ==
                AssistantMessage(IF call.version = "v2"
                                 THEN "financial_assistant" ELSE Undefined)
            updatedMessages ==
                call.messages \o <<call.userMessage, assistantMessage>>
            setsSession ==
                call.version = "v2" /\ rsid # NoSession /\ rsid # call.sessionId
            saves ==
                rsid # NoSession /\ currentUser # NoUser
                /\ Len(updatedMessages) > 1
        IN  /\ issued' = issued \cup ({rsid} \ {NoSession})
            /\ sessionId' = IF setsSession THEN rsid ELSE sessionId
            \* the effect on [sessionId] runs when the state value changed
            /\ lsSessionId' = IF setsSession /\ rsid # sessionId
                              THEN rsid ELSE lsSessionId
            /\ messages' = Append(messages, assistantMessage)
            /\ exchanges' = IF rsid # NoSession /\ currentUser # NoUser
                            THEN [exchanges EXCEPT ![rsid] = @ + 1]
                            ELSE exchanges
            /\ IF saves
               THEN /\ sendPc' = "saving"
                    /\ call' = [call EXCEPT !.saveSid = rsid,
                                            !.saveMsgs = updatedMessages]
                    /\ isLoading' = isLoading
               ELSE /\ sendPc' = "idle"
                    /\ call' = IdleCall
                    /\ isLoading' = FALSE
    /\ UNCHANGED <<input, apiVersion, currentChatHistory, chatHistory,
                   chatHistories, sendCount>>

\* the request rejects with the given status: catch and finally of
\* handleSend
ReplyFailWith(status) ==
    /\ sendPc = "awaitReply"
    /\ messages' = Append(messages, ErrorMessage(status))
    /\ isLoading' = FALSE
    /\ sendPc' = "idle"
    /\ call' = IdleCall
    /\ UNCHANGED <<input, apiVersion, sessionId, currentChatHistory,
                   lsSessionId, chatHistory, chatHistories, issued, exchanges, sendCount>>

ReplyFail == \E status \in HttpStatuses : ReplyFailWith(status)

\* saveChatHistoryDirectly took the branch that updates the existing chat
SaveTakesUpdate ==
    call.cch # NoSession /\ call.cch = call.saveSid

\* the store accepted the write of saveChatHistoryDirectly
SaveWritten ==
    /\ sendPc = "saving"
    /\ IF SaveTakesUpdate
       THEN /\ CanUpdateChatHistory(chatHistory, call.saveSid)
            /\ chatHistory' = updateChatHistory(chatHistory, call.saveSid,
                                                ToChatMessages(call.saveMsgs))
            /\ currentChatHistory' = currentChatHistory
       ELSE /\ chatHistory' = saveChatHistory(chatHistory, currentUser,
                                              call.saveSid,
                                              ToChatMessages(call.saveMsgs),
                                              TitleOf(call.saveMsgs))
            \* the query after setDoc may still reject: then the catch block
            \* runs and setCurrentChatHistory is skipped
            /\ \E verified \in BOOLEAN :
                  currentChatHistory' =
                      IF verified THEN call.saveSid ELSE currentChatHistory
    /\ isLoading' = FALSE
    /\ sendPc' = "idle"
    /\ call' = IdleCall
    /\ UNCHANGED <<messages, input, apiVersion, sessionId, lsSessionId,
                   chatHistories, issued, exchanges, sendCount>>

\* a rejected write whose error reaches the catch block of handleSend
SaveRejected_AppendsError ==
    /\ sendPc = "saving"
    /\ messages' = Append(messages, ErrorMessage(500))
    /\ isLoading' = FALSE
    /\ sendPc' = "idle"
    /\ call' = IdleCall
    /\ UNCHANGED <<input, apiVersion, sessionId, currentChatHistory,
                   lsSessionId, chatHistory, chatHistories, issued, exchanges, sendCount>>

\* the store rejected the write (updateDoc also rejects when the document
\* does not exist): the catch block of saveChatHistoryDirectly logs it
SaveRejected ==
    /\ sendPc = "saving"
    /\ isLoading' = FALSE
    /\ sendPc' = "idle"
    /\ call' = IdleCall
    /\ UNCHANGED <<messages, input, apiVersion, sessionId, currentChatHistory,
                   lsSessionId, chatHistory, chatHistories, issued, exchanges, sendCount>>

\* clearChat (the New Chat button) and startNewChat (the dropdown entry)
clearChat ==
    /\ messages' = <<SeedMessage>>
    /\ sessionId' = NoSession
    /\ currentChatHistory' = NoSession
    /\ lsSessionId' = NoSession
    /\ UNCHANGED <<input, isLoading, apiVersion, sendPc, call, chatHistory,
                   chatHistories, issued, exchanges, sendCount>>

\* loadChatHistory with an entry of the dropdown's list
loadChatHistory ==
    /\ \E id \in DOMAIN chatHistories :
          /\ messages' = FromChatMessages(chatHistories[id].chat_data)
          /\ sessionId' = chatHistories[id].session_id
          /\ currentChatHistory' = chatHistories[id].session_id
          /\ lsSessionId' = chatHistories[id].session_id
    /\ UNCHANGED <<input, isLoading, apiVersion, sendPc, call, chatHistory,
                   chatHistories, issued, exchanges, sendCount>>

\* ChatHistoryDropdown.fetchChatHistories resolves
FetchChatHistories ==
    /\ currentUser # NoUser
    /\ chatHistories' = getUserChatHistory(chatHistory, currentUser)
    /\ chatHistories' # chatHistories
    /\ UNCHANGED <<messages, input, isLoading, apiVersion, sessionId,
                   currentChatHistory, lsSessionId, sendPc, call, chatHistory,
                   issued, exchanges, sendCount>>

\* ChatHistoryDropdown.handleDeleteHistory on a listed entry, confirmed
handleDeleteHistory ==
    /\ \E id \in DOMAIN chatHistories :
          chatHistory' = deleteChatHistory(chatHistory, id)
    /\ chatHistories' = getUserChatHistory(chatHistory', currentUser)
    /\ UNCHANGED <<messages, input, isLoading, apiVersion, sessionId,
                   currentChatHistory, lsSessionId, sendPc, call, issued,
                   exchanges, sendCount>>

\* the mount effect on the stored session id: localStorage.removeItem
StoredAfterMount_Kept(stored) == stored

StoredAfterMount(stored) == NoSession

\* the page is loaded again: every useState starts over, the mount effects
\* run; a request in flight is abandoned and a store write in flight may or
\* may not have been committed
PageLoad ==
    /\ messages' = <<SeedMessage>>
    /\ input' = <<>>
    /\ isLoading' = FALSE
    /\ apiVersion' = "v2"
    /\ sessionId' = NoSession
    /\ currentChatHistory' = NoSession
    /\ lsSessionId' = StoredAfterMount(lsSessionId)
    /\ sendPc' = "idle"
    /\ call' = IdleCall
    /\ chatHistories' = EmptyObj
    /\ IF sendPc = "saving"
       THEN \E committed \in BOOLEAN :
               chatHistory' =
                   IF ~committed THEN chatHistory
                   ELSE IF SaveTakesUpdate
                   THEN IF CanUpdateChatHistory(chatHistory, call.saveSid)
                        THEN updateChatHistory(chatHistory, call.saveSid,
                                               ToChatMessages(call.saveMsgs))
                        ELSE chatHistory
                   ELSE saveChatHistory(chatHistory, currentUser,
                                        call.saveSid,
                                        ToChatMessages(call.saveMsgs),
                                        TitleOf(call.saveMsgs))
       ELSE chatHistory' = chatHistory
    /\ UNCHANGED <<issued, exchanges, sendCount>>

NextChat ==
    \/ PageLoad
    \/ TypeInput
    \/ HandleSendIgnored
    \/ SetApiVersion
    \/ HandleSend
    \/ ReplyOk
    \/ ReplyFail
    \/ SaveWritten
    \/ SaveRejected
    \/ clearChat
    \/ loadChatHistory
    \/ FetchChatHistories
    \/ handleDeleteHistory

(***************************************************************************)
(* The chat-history store on its own: the FirestoreService calls applied   *)
(* to arbitrary arguments                                                  *)
(***************************************************************************)
UserIds == {Uid, "u2"}

\* ChatMessage values as the client writes them
StoreGreeting == ToChatMessage(SeedMessage)
StoreQuestion == ToChatMessage(UserMessage(<<"A">>))
StoreReply == ToChatMessage(AssistantMessage("financial_assistant"))

\* the message lists handed to the store
StoreLists ==
    { <<StoreGreeting>>,
      <<StoreGreeting, StoreQuestion, StoreReply>>,
      <<StoreGreeting, StoreQuestion, StoreReply, StoreQuestion, StoreReply>>,
      <<StoreQuestion, StoreReply>> }

\* the records of a collection that carry a session id
RecordsOf(coll, sid) == {d \in DOMAIN coll : coll[d].session_id = sid}

\* the collection already holds this list for this session
AlreadySaved(coll, sid, msgs) ==
    \E d \in RecordsOf(coll, sid) : coll[d].chat_data = msgs

NoStoreOp == [op |-> "none", session |-> NoSession, resave |-> FALSE]

InitStore == storeOp = NoStoreOp

StoreSave(userId, sid, msgs) ==
    /\ chatHistory' = saveChatHistory(chatHistory, userId, sid, msgs,
                                      TitleOf(FromChatMessages(msgs)))
    /\ storeOp' = [op |-> "save", session |-> sid,
                   resave |-> AlreadySaved(chatHistory, sid, msgs)]

StoreUpdate(sid, msgs) ==
    /\ CanUpdateChatHistory(chatHistory, sid)
    /\ chatHistory' = updateChatHistory(chatHistory, sid, msgs)
    /\ storeOp' = [op |-> "update", session |-> sid,
                   resave |-> AlreadySaved(chatHistory, sid, msgs)]

StoreDelete(id) ==
    /\ Exists(chatHistory, id)
    /\ chatHistory' = deleteChatHistory(chatHistory, id)
    /\ storeOp' = [op |-> "delete", session |-> chatHistory[id].session_id,
                   resave |-> FALSE]

StoreSaves ==
    \E u \in UserIds, sid \in SessionIds, msgs \in StoreLists :
        StoreSave(u, sid, msgs)

StoreUpdates ==
    \E sid \in SessionIds, msgs \in StoreLists : StoreUpdate(sid, msgs)

StoreDeletes == \E id \in DOMAIN chatHistory : StoreDelete(id)

NextStore ==
    /\ \/ StoreSaves
       \/ StoreUpdates
       \/ StoreDeletes
    /\ UNCHANGED <<messages, input, isLoading, apiVersion, sessionId,
                   currentChatHistory, lsSessionId, sendPc, call,
                   chatHistories, issued, exchanges, sendCount>>

(***************************************************************************)
(* Legacy API client (the axios instance `api` of lib/api.ts) and the      *)
(* plain axios calls to the v2 backend                                     *)
(***************************************************************************)
NoToken == "null"
Token == "access_token"
Clients == {"api", "axios"}
RequestKinds == {"login", "logout", "call"}
NetworkError == 0
Statuses == {200, 401, 500, NetworkError}
RequestSlots == 1..MaxRequests

IdleRequest ==
    [pc |-> "idle", client |-> "api", kind |-> "call",
     authorization |-> FALSE, status |-> NetworkError]

InitApi ==
    /\ authToken \in {NoToken, Token}
    /\ location = "/"
    /\ navigations = 0
    /\ requests = [i \in RequestSlots |-> IdleRequest]

\* api.interceptors.request: the bearer token is attached when one is stored
RequestInterceptor(client, token) == client = "api" /\ token # NoToken

\* the error handler of api.interceptors.response: does it handle this error
\* as "unauthorized"?
IsUnauthorized_Never(client, status) == FALSE

IsUnauthorized(client, status) == client = "api" /\ status = 401

\* a function of chatAPI / toolsAPI / systemAPI / authAPI issues its request.
\* authAPI.logout removes the token before it posts; sendMessageV2 and
\* getSystemStatusV2 use axios directly.
SendRequest(i, client, kind) ==
    /\ requests[i].pc = "idle"
    /\ client = "axios" => kind = "call"
    /\ LET token == IF kind = "logout" THEN NoToken ELSE authToken
       IN  /\ authToken' = token
           /\ requests' = [requests EXCEPT ![i] =
                  [pc |-> "sent", client |-> client, kind |-> kind,
                   authorization |-> RequestInterceptor(client, token),
                   status |-> NetworkError]]
    /\ UNCHANGED <<location, navigations>>

\* the response (or the failure) of request i arrives and runs through the
\* response interceptor; authAPI.login stores the token of a 2xx answer
ReceiveResponse(i, status) ==
    /\ requests[i].pc = "sent"
    /\ IF status = 200
       THEN /\ requests' = [requests EXCEPT ![i].pc = "fulfilled",
                                            ![i].status = status]
            /\ authToken' = IF requests[i].kind = "login"
                            THEN Token ELSE authToken
            /\ UNCHANGED <<location, navigations>>
       ELSE /\ requests' = [requests EXCEPT ![i].pc = "rejected",
                                            ![i].status = status]
            /\ IF IsUnauthorized(requests[i].client, status)
               THEN /\ navigations < MaxNavigations
                    /\ authToken' = NoToken
                    /\ location' = "/auth"
                    /\ navigations' = navigations + 1
               ELSE UNCHANGED <<authToken, location, navigations>>

\* the caller's await returns or throws; the slot is free again
SettleRequest(i) ==
    /\ requests[i].pc \in {"fulfilled", "rejected"}
    /\ requests' = [requests EXCEPT ![i] = IdleRequest]
    /\ UNCHANGED <<authToken, location, navigations>>

SendRequests ==
    \E i \in RequestSlots, client \in Clients, kind \in RequestKinds :
        SendRequest(i, client, kind)

ReceiveResponses ==
    \E i \in RequestSlots, status \in Statuses : ReceiveResponse(i, status)

SettleRequests == \E i \in RequestSlots : SettleRequest(i)

NextApi ==
    \/ SendRequests
    \/ ReceiveResponses
    \/ SettleRequests

(***************************************************************************)
(* Voice recording: the useVoiceRecording hook and the VoiceRecorder       *)
(* component that mounts it                                                *)
(***************************************************************************)
NoRef == 0
PermissionDeniedMsg ==
    "Microphone permission denied. Please allow microphone access to use voice recording."
PermissionRequiredMsg ==
    "Microphone permission required. Please enable microphone access."
StartFailedMsg == "Failed to start recording. Please check your microphone."
PermissionMessages == {PermissionDeniedMsg, PermissionRequiredMsg}

CallIds == 1..Len(calls)
StreamIds == 1..Len(streams)
RecorderIds == 1..Len(recorders)
IntervalIds == 1..Len(intervals)

NewCall(kind) ==
    [kind |-> kind, pc |-> "done", denied |-> FALSE, cancelled |-> FALSE,
     setRecording |-> FALSE, errors |-> {}, completions |-> 0]

\* a state setter of a component that is gone has no effect
SetState(new, old) == IF mounted THEN new ELSE old

InitVoice ==
    /\ hasPermission = "null"
    /\ isRecording = FALSE
    /\ isProcessing = FALSE
    /\ recordingDuration = 0
    /\ mediaRecorderRef = NoRef
    /\ streamRef = NoRef
    /\ durationIntervalRef = NoRef
    /\ streams = <<>>
    /\ recorders = <<>>
    /\ intervals = <<>>
    /\ calls = <<>>
    /\ stopEvents = {}
    /\ mounted = TRUE
    /\ audioChunksRef = {}
    /\ deliveredBlob = {}
    /\ pressed = FALSE

\* startRecording line 48: `if (!granted) return`
AfterPermissionCheck_NoReturn(granted) == "awaitStream"

AfterPermissionCheck(granted) == IF granted THEN "awaitStream" ELSE "done"

\* startRecording up to its first await (or to its return)
StartRecordingCall ==
    /\ mounted
    /\ Len(calls) < MaxCalls
    /\ calls' = Append(calls,
          IF hasPermission = "null"
          THEN [NewCall("start") EXCEPT !.pc = "awaitPermission"]
          ELSE IF hasPermission = "false"
          THEN [NewCall("start") EXCEPT !.denied = TRUE,
                                        !.errors = {PermissionRequiredMsg}]
          ELSE [NewCall("start") EXCEPT !.pc = "awaitStream"])
    /\ UNCHANGED <<hasPermission, isRecording, isProcessing,
                   recordingDuration, mediaRecorderRef, streamRef,
                   durationIntervalRef, streams, recorders, intervals,
                   stopEvents, mounted,
                   audioChunksRef, deliveredBlob>>

\* the hook's startRecording, called by whoever holds the hook
startRecording == StartRecordingCall /\ UNCHANGED pressed

\* requestPermission called on its own, up to its await
RequestPermissionCall ==
    /\ mounted
    /\ Len(calls) < MaxCalls
    /\ calls' = Append(calls,
                       [NewCall("permission") EXCEPT !.pc = "awaitPermission"])
    /\ UNCHANGED <<hasPermission, isRecording, isProcessing,
                   recordingDuration, mediaRecorderRef, streamRef,
                   durationIntervalRef, streams, recorders, intervals,
                   stopEvents, mounted,
                   audioChunksRef, deliveredBlob>>

\* the hook's requestPermission, called by whoever holds the hook
requestPermission == RequestPermissionCall /\ UNCHANGED pressed

\* the getUserMedia of requestPermission settles
PermissionSettles(c, granted) ==
    /\ calls[c].pc = "awaitPermission"
    /\ hasPermission' = SetState(IF granted THEN "true" ELSE "false",
                                 hasPermission)
    /\ LET next == IF calls[c].kind = "start"
                   THEN AfterPermissionCheck(granted) ELSE "done"
       IN IF granted
          THEN \* the probe stream is stopped as soon as it is obtained
               /\ streams' = Append(streams, [live |-> FALSE, call |-> c])
               /\ calls' = [calls EXCEPT ![c].pc = next]
          ELSE /\ streams' = streams
               /\ calls' = [calls EXCEPT
                               ![c].pc = next,
                               ![c].denied = TRUE,
                               ![c].errors = @ \cup {PermissionDeniedMsg}]
    /\ UNCHANGED <<isRecording, isProcessing, recordingDuration,
                   mediaRecorderRef, streamRef, durationIntervalRef,
                   recorders, intervals, stopEvents, mounted,
                   audioChunksRef, deliveredBlob, pressed>>

StreamOutcomes == {"stream", "rejected", "recorderThrows"}

\* the getUserMedia of startRecording settles and startRecording runs to
\* its end: the stream and the recorder are stored, the recorder started,
\* the duration interval installed; a rejection or a throwing MediaRecorder
\* constructor ends in the catch block
StreamSettles(c, outcome) ==
    /\ calls[c].pc = "awaitStream"
    /\ IF outcome = "rejected"
       THEN /\ calls' = [calls EXCEPT ![c].pc = "done",
                                      ![c].errors = @ \cup {StartFailedMsg}]
            /\ UNCHANGED <<streams, streamRef, recorders, mediaRecorderRef,
                           intervals, durationIntervalRef, isRecording,
                           audioChunksRef>>
       ELSE /\ streams' = Append(streams, [live |-> TRUE, call |-> c])
            /\ streamRef' = Len(streams) + 1
            /\ audioChunksRef' = {}
            /\ IF outcome = "recorderThrows"
               THEN /\ calls' = [calls EXCEPT
                                    ![c].pc = "done",
                                    ![c].errors = @ \cup {StartFailedMsg}]
                    /\ UNCHANGED <<recorders, mediaRecorderRef, intervals,
                                   durationIntervalRef, isRecording>>
               ELSE /\ recorders' = Append(recorders,
                           [state |-> "recording", onstop |-> TRUE,
                            stream |-> Len(streams) + 1, call |-> c])
                    /\ mediaRecorderRef' = Len(recorders) + 1
                    /\ isRecording' = SetState(TRUE, isRecording)
                    /\ intervals' = Append(intervals, TRUE)
                    /\ durationIntervalRef' = Len(intervals) + 1
                    /\ calls' = [calls EXCEPT ![c].pc = "done",
                                              ![c].setRecording = TRUE]
    /\ UNCHANGED <<hasPermission, isProcessing, recordingDuration,
                   stopEvents, mounted,
                   deliveredBlob, pressed>>

\* what stopRecording and cancelRecording share: the interval is cleared
\* and the tracks of streamRef are stopped
ReleaseCapture ==
    /\ intervals' = IF durationIntervalRef # NoRef
                    THEN [intervals EXCEPT ![durationIntervalRef] = FALSE]
                    ELSE intervals
    /\ durationIntervalRef' = NoRef
    /\ streams' = IF streamRef # NoRef
                  THEN [streams EXCEPT ![streamRef].live = FALSE]
                  ELSE streams
    /\ streamRef' = NoRef

\* stopRecording when its guard holds (otherwise it does nothing)
StopRecordingCall ==
    /\ mounted
    /\ mediaRecorderRef # NoRef /\ isRecording
    /\ recorders' = [recorders EXCEPT ![mediaRecorderRef].state = "inactive"]
    /\ stopEvents' = IF recorders[mediaRecorderRef].state = "recording"
                     THEN stopEvents \cup {mediaRecorderRef} ELSE stopEvents
    /\ isRecording' = FALSE
    /\ recordingDuration' = 0
    /\ ReleaseCapture
    /\ UNCHANGED <<hasPermission, isProcessing, mediaRecorderRef, calls,
                   mounted,
                   audioChunksRef, deliveredBlob>>

\* the hook's stopRecording, called by whoever holds the hook
stopRecording == StopRecordingCall /\ UNCHANGED pressed

\* the startRecording calls whose recording is not over yet
InProgress(c) ==
    /\ calls[c].kind = "start"
    /\ \/ calls[c].pc \in {"awaitPermission", "awaitStream"}
       \/ \E r \in RecorderIds :
             recorders[r].call = c /\ recorders[r].state = "recording"

\* cancelRecording; `cancelled` remembers the calls it was meant for
cancelRecording ==
    /\ mounted
    /\ \E c \in CallIds : InProgress(c)
    /\ calls' = [c \in CallIds |->
                    IF InProgress(c) THEN [calls[c] EXCEPT !.cancelled = TRUE]
                    ELSE calls[c]]
    /\ IF mediaRecorderRef # NoRef /\ isRecording
       THEN /\ recorders' = [recorders EXCEPT
                                ![mediaRecorderRef].onstop = FALSE,
                                ![mediaRecorderRef].state = "inactive"]
            /\ isRecording' = FALSE
            /\ recordingDuration' = 0
            /\ isProcessing' = FALSE
            /\ audioChunksRef' = {}
            /\ ReleaseCapture
       ELSE UNCHANGED <<recorders, isRecording, recordingDuration,
                        isProcessing, intervals, durationIntervalRef,
                        streams, streamRef, audioChunksRef>>
    /\ UNCHANGED <<hasPermission, mediaRecorderRef, stopEvents, mounted,
                   deliveredBlob, pressed>>

\* a chunk of recorded audio with event.data.size > 0: chunks are not told
\* apart, the buffer is modelled by the set of chunks it holds
AudioChunk == "audio"

\* mediaRecorder.ondataavailable: a recording recorder hands over a chunk,
\* which is buffered when it is not empty
DataAvailable(r) ==
    /\ recorders[r].state = "recording"
    /\ recorders[r].onstop
    /\ AudioChunk \notin audioChunksRef
    /\ audioChunksRef' = audioChunksRef \cup {AudioChunk}
    /\ UNCHANGED <<hasPermission, isRecording, isProcessing,
                   recordingDuration, mediaRecorderRef, streamRef,
                   durationIntervalRef, streams, recorders, intervals, calls,
                   stopEvents, mounted, deliveredBlob, pressed>>

\* new Blob(audioChunksRef.current, ...): made of every buffered chunk
BlobOf_Empty(chunks) == {}

BlobOf(chunks) == chunks

\* the task queued by MediaRecorder.stop() runs: the data gathered since
\* the last chunk is handed to ondataavailable (it may be empty), then the
\* onstop handler, when still attached, builds the blob and hands it to
\* onRecordingComplete
StopEventFires(r) ==
    /\ r \in stopEvents
    /\ stopEvents' = stopEvents \ {r}
    /\ \E last \in BOOLEAN :
          audioChunksRef' =
              IF last /\ recorders[r].onstop
              THEN audioChunksRef \cup {AudioChunk} ELSE audioChunksRef
    /\ IF recorders[r].onstop
       THEN /\ calls' = [calls EXCEPT
                            ![recorders[r].call].completions = @ + 1]
            /\ deliveredBlob' = BlobOf(audioChunksRef')
       ELSE UNCHANGED <<calls, deliveredBlob>>
    /\ isProcessing' = FALSE
    /\ UNCHANGED <<hasPermission, isRecording, recordingDuration,
                   mediaRecorderRef, streamRef, durationIntervalRef, streams,
                   recorders, intervals, mounted, pressed>>

\* a running duration interval fires
IntervalFires ==
    /\ \E i \in IntervalIds : intervals[i]
    /\ mounted
    /\ recordingDuration = 0
    /\ recordingDuration' = 1
    /\ UNCHANGED <<hasPermission, isRecording, isProcessing,
                   mediaRecorderRef, streamRef, durationIntervalRef, streams,
                   recorders, intervals, calls, stopEvents, mounted,
                   audioChunksRef, deliveredBlob, pressed>>

\* VoiceRecorder is unmounted: its only effect has no cleanup function and
\* the hook's cleanup is not used by the component
Unmount ==
    /\ mounted
    /\ mounted' = FALSE
    /\ UNCHANGED <<hasPermission, isRecording, isProcessing,
                   recordingDuration, mediaRecorderRef, streamRef,
                   durationIntervalRef, streams, recorders, intervals, calls,
                   stopEvents,
                   audioChunksRef, deliveredBlob, pressed>>

\* ---- the VoiceRecorder component (recordingMode is 'hold': its setter is
\* only reachable from a button that is never rendered) ----
hookVars == <<hasPermission, isRecording, isProcessing, recordingDuration,
              mediaRecorderRef, streamRef, durationIntervalRef, streams,
              recorders, intervals, calls, stopEvents, mounted,
              audioChunksRef, deliveredBlob>>

\* the record button is rendered and not disabled (the `disabled` prop has
\* its default, false)
RecordButtonEnabled == mounted /\ hasPermission # "false" /\ ~isProcessing

\* handleMouseDown: the button is pressed
handleMouseDown ==
    /\ RecordButtonEnabled
    /\ ~pressed
    /\ pressed' = TRUE
    /\ IF ~isRecording THEN StartRecordingCall ELSE UNCHANGED hookVars

\* handleMouseUp: the button is released over the record button
handleMouseUp ==
    /\ RecordButtonEnabled
    /\ pressed
    /\ pressed' = FALSE
    /\ IF isRecording THEN StopRecordingCall ELSE UNCHANGED hookVars

\* handleMouseLeave: the pointer leaves the record button
handleMouseLeave ==
    /\ RecordButtonEnabled
    /\ pressed \/ isRecording
    /\ pressed' = FALSE
    /\ IF isRecording THEN StopRecordingCall ELSE UNCHANGED hookVars

\* the button shown while hasPermission is false: onClick={requestPermission}
EnableMicrophoneClick ==
    /\ mounted
    /\ hasPermission = "false"
    /\ RequestPermissionCall
    /\ UNCHANGED pressed

PermissionSettlesAny ==
    \E c \in CallIds, granted \in BOOLEAN : PermissionSettles(c, granted)

StreamSettlesAny ==
    \E c \in CallIds, outcome \in StreamOutcomes : StreamSettles(c, outcome)

StopEventFiresAny == \E r \in stopEvents : StopEventFires(r)

DataAvailableAny == \E r \in RecorderIds : DataAvailable(r)

NextVoice ==
    \/ startRecording
    \/ requestPermission
    \/ PermissionSettlesAny
    \/ StreamSettlesAny
    \/ stopRecording
    \/ cancelRecording
    \/ DataAvailableAny
    \/ StopEventFiresAny
    \/ IntervalFires
    \/ Unmount

NextRecorder ==
    \/ handleMouseDown
    \/ handleMouseUp
    \/ handleMouseLeave
    \/ EnableMicrophoneClick
    \/ PermissionSettlesAny
    \/ StreamSettlesAny
    \/ DataAvailableAny
    \/ StopEventFiresAny
    \/ IntervalFires
    \/ Unmount

(***************************************************************************)
(* Auth context (AuthProvider) and the route guards                        *)
(***************************************************************************)
AuthUsers == {Uid, "u2"}
Routes == {"/auth", "/", "/onboarding"}
NoPush == [by |-> "none", to |-> "none"]

\* a document of the 'users' collection, as far as the gate reads it
ProfileDoc(uid, completed) == [uid |-> uid, profileCompleted |-> completed]

\* the 'users' collections the gate can meet: per user no document, an
\* incomplete one or a completed one
UserCollections ==
    LET DocsOf(u) == {ProfileDoc(u, FALSE), ProfileDoc(u, TRUE)}
        Colls(us) == { c \in [us -> UNION {DocsOf(u) : u \in us}] :
                          \A u \in us : c[u] \in DocsOf(u) }
    IN  UNION { Colls(us) : us \in SUBSET AuthUsers }

\* FirestoreService.getUserProfile: the document, null when there is none;
\* a failed read throws
getUserProfile(coll, uid, readOk) ==
    [ok |-> readOk,
     doc |-> IF readOk /\ Exists(coll, uid) THEN coll[uid] ELSE NoProfile]

\* FirestoreService.needsOnboarding with its catch returning false
FsNeedsOnboarding_FalseOnError(read) ==
    IF ~read.ok THEN FALSE
    ELSE DOMAIN read.doc = {} \/ ~read.doc.profileCompleted

\* FirestoreService.needsOnboarding, given the outcome of its read
FsNeedsOnboarding(read) ==
    IF ~read.ok THEN TRUE
    ELSE DOMAIN read.doc = {} \/ ~read.doc.profileCompleted

\* AuthRedirect's effect: where it pushes (the route itself when it does not)
AuthRedirectTarget(user, ld, needs) ==
    IF ~ld /\ user # NoUser
    THEN IF needs THEN "/onboarding" ELSE "/"
    ELSE "/auth"

\* ProtectedRoute, as documented: unauthenticated users go to /auth,
\* authenticated users with an incomplete profile to /onboarding
ProtectedRouteTarget(user, ld, needs) ==
    IF ld THEN "/"
    ELSE IF user = NoUser THEN "/auth"
    ELSE IF needs THEN "/onboarding"
    ELSE "/"

\* the guard of the page shown runs after the render (AuthProvider renders
\* no page while loading)
GuardTarget(r, user, ld, needs) ==
    IF ld THEN r
    ELSE IF r = "/auth" THEN AuthRedirectTarget(user, ld, needs)
    ELSE IF r = "/" THEN ProtectedRouteTarget(user, ld, needs)
    ELSE r

GuardOf(r) == IF r = "/auth" THEN "AuthRedirect" ELSE "ProtectedRoute"

\* the guards run on the state the step produced; the page a guard pushes
\* to is rendered with the same state and never pushes back
RunGuards(r) ==
    LET to == GuardTarget(r, currentUser', authLoading', needsOnboarding')
    IN  /\ route' = to
        /\ guardPush' = IF to # r THEN [by |-> GuardOf(r), to |-> to]
                        ELSE NoPush

\* what the two guarded pages render
ShowsAuthContent ==
    route = "/auth" /\ ~authLoading /\ currentUser = NoUser

ShowsProtectedContent ==
    route = "/" /\ ~authLoading /\ currentUser # NoUser /\ ~needsOnboarding

InFlight(i) == checks[i].pc # "done"

InitAuth ==
    /\ authUser = currentUser
    /\ authLoading = FALSE
    /\ checks = <<>>
    /\ guardPush = NoPush

wizardVars == <<currentStep, loading, errors, formData, submitPc,
                pendingProfile, editsWhileSaving, previousCount>>

\* the onAuthStateChanged callback up to the await inside checkUserProfile
\* (for null: to its end)
AuthCallback(user) ==
    /\ Len(checks) < MaxAuthEvents
    /\ currentUser' = user
    /\ IF user = NoUser
       THEN /\ userProfile' = NoProfile
            /\ needsOnboarding' = FALSE
            /\ authLoading' = FALSE
            /\ checks' = Append(checks, [user |-> user, pc |-> "done",
                                         setsLoading |-> TRUE,
                                         failed |-> FALSE])
       ELSE /\ checks' = Append(checks, [user |-> user,
                                         pc |-> "getUserProfile",
                                         setsLoading |-> TRUE,
                                         failed |-> FALSE])
            /\ UNCHANGED <<userProfile, needsOnboarding, authLoading>>
    /\ UNCHANGED <<users, wizardVars>>
    /\ RunGuards(route)

\* the first emission of onAuthStateChanged after the page load
AuthObserved ==
    /\ checks = <<>>
    /\ AuthCallback(authUser)
    /\ UNCHANGED authUser

\* login / signup / loginWithGoogle on the auth page succeed
SignIn ==
    /\ ShowsAuthContent
    /\ authUser = NoUser
    /\ \E u \in AuthUsers :
          /\ authUser' = u
          /\ AuthCallback(u)

\* logout (offered by the sidebar of the main app)
SignOut ==
    /\ ~authLoading
    /\ authUser # NoUser
    /\ authUser' = NoUser
    /\ AuthCallback(NoUser)

\* refreshUserProfile up to the await inside checkUserProfile
refreshUserProfile ==
    /\ ~authLoading
    /\ currentUser # NoUser
    /\ Len(checks) < MaxAuthEvents
    /\ checks' = Append(checks, [user |-> currentUser,
                                 pc |-> "getUserProfile",
                                 setsLoading |-> FALSE,
                                 failed |-> FALSE])
    /\ guardPush' = NoPush
    /\ UNCHANGED <<currentUser, users, userProfile, needsOnboarding, route,
                   wizardVars, authUser, authLoading>>

\* the end of a check: the callback goes on to setLoading(false)
CheckEnds(i, hasFailed) ==
    /\ checks' = [checks EXCEPT ![i].pc = "done", ![i].failed = hasFailed]
    /\ authLoading' = IF checks[i].setsLoading THEN FALSE ELSE authLoading

\* checkUserProfile: getUserProfile resolved
ProfileReadOk(i) ==
    /\ i \in DOMAIN checks
    /\ checks[i].pc = "getUserProfile"
    /\ userProfile' = getUserProfile(users, checks[i].user, TRUE).doc
    /\ checks' = [checks EXCEPT ![i].pc = "needsOnboarding"]
    /\ UNCHANGED <<currentUser, users, needsOnboarding, wizardVars, authUser,
                   authLoading>>
    /\ RunGuards(route)

\* checkUserProfile: getUserProfile rejected, the catch block runs
ProfileReadFails(i) ==
    /\ i \in DOMAIN checks
    /\ checks[i].pc = "getUserProfile"
    /\ needsOnboarding' = TRUE
    /\ userProfile' = NoProfile
    /\ CheckEnds(i, TRUE)
    /\ UNCHANGED <<currentUser, users, wizardVars, authUser>>
    /\ RunGuards(route)

\* checkUserProfile: FirestoreService.needsOnboarding resolved, its own read
\* having succeeded or not
OnboardingRead(i, readOk) ==
    /\ i \in DOMAIN checks
    /\ checks[i].pc = "needsOnboarding"
    /\ needsOnboarding' =
           FsNeedsOnboarding(getUserProfile(users, checks[i].user, readOk))
    /\ CheckEnds(i, ~readOk)
    /\ UNCHANGED <<currentUser, users, userProfile, wizardVars, authUser>>
    /\ RunGuards(route)

\* the address bar or a link: another page of the app is opened
Navigate ==
    /\ UNCHANGED <<currentUser, users, userProfile, needsOnboarding,
                   wizardVars, authUser, authLoading, checks>>
    /\ \E r \in Routes :
          /\ r # route
          /\ RunGuards(r)

ProfileReadsOk == \E i \in 1..MaxAuthEvents : ProfileReadOk(i)
ProfileReadsFail == \E i \in 1..MaxAuthEvents : ProfileReadFails(i)
OnboardingReads ==
    \E i \in 1..MaxAuthEvents, readOk \in BOOLEAN : OnboardingRead(i, readOk)

NextAuth ==
    \/ AuthObserved
    \/ SignIn
    \/ SignOut
    \/ refreshUserProfile
    \/ ProfileReadsOk
    \/ ProfileReadsFail
    \/ OnboardingReads
    \/ Navigate

(***************************************************************************)
(* Specifications                                                          *)
(***************************************************************************)
(***************************************************************************)
(* The user-profile store on its own: the FirestoreService calls applied   *)
(* to arbitrary arguments                                                  *)
(***************************************************************************)
\* the profiles handed to createUserProfile
StoreProfiles ==
    LET base == {[uid |-> u, name |-> <<"A">>, profileCompleted |-> c]
                    : u \in UserIds, c \in BOOLEAN}
    IN  base \cup {Spread(b, [kidsCount |-> 1]) : b \in base}

\* the updates handed to updateUserProfile
ProfileUpdates == {[name |-> <<"B">>], [profileCompleted |-> FALSE]}

CreateUserProfileCall(profile) ==
    /\ ProfileClock(users) <= MaxWrites
    /\ users' = createUserProfile(users, profile, ProfileClock(users))

\* updateDoc rejects for a document that does not exist
UpdateUserProfileCall(uid, updates) ==
    /\ ProfileClock(users) <= MaxWrites
    /\ Exists(users, uid)
    /\ users' = updateUserProfile(users, uid, updates, ProfileClock(users))

CompleteProfileCall(uid) ==
    /\ ProfileClock(users) <= MaxWrites
    /\ Exists(users, uid)
    /\ users' = completeProfile(users, uid, ProfileClock(users))

CreateUserProfiles == \E profile \in StoreProfiles : CreateUserProfileCall(profile)

UpdateUserProfiles ==
    \E uid \in UserIds, updates \in ProfileUpdates :
        UpdateUserProfileCall(uid, updates)

CompleteProfiles == \E uid \in UserIds : CompleteProfileCall(uid)

NextProfiles ==
    /\ \/ CreateUserProfiles
       \/ UpdateUserProfiles
       \/ CompleteProfiles
    /\ UNCHANGED <<currentUser, currentStep, loading, errors, formData,
                   submitPc, pendingProfile, editsWhileSaving, previousCount,
                   userProfile, needsOnboarding, route>>

Init ==
    InitOnboarding /\ InitChat /\ InitStore /\ InitApi /\ InitVoice /\ InitAuth

NextOnboarding ==
    /\ \/ EditField
       \/ HandleNextStep
       \/ HandleNextSubmit
       \/ handlePrevious
       \/ CreateProfileOk
       \/ CreateProfileFail
       \/ RefreshAndNavigate
    /\ UNCHANGED <<chatVars, storeVars, apiVars, voiceVars, authVars>>

\* the wizard is the only component that runs: no token is involved
InitOnboardingPage == Init /\ authToken = NoToken

SpecOnboarding == InitOnboardingPage /\ [][NextOnboarding]_vars

\* the pages below never read the wizard's form: one form is enough
InitChatPage == InitOnboardingPage /\ formData = InitialFormData(<<>>)

SpecChat ==
    InitChatPage
    /\ [][NextChat /\ UNCHANGED <<onbVars, storeVars, apiVars, voiceVars, authVars>>]_vars

\* the chat page with the settings panel left alone: apiVersion keeps its
\* default, 'v2', the only version whose replies set the session id
NextChatV2 ==
    \/ PageLoad
    \/ TypeInput
    \/ HandleSendIgnored
    \/ HandleSend
    \/ ReplyOk
    \/ ReplyFail
    \/ SaveWritten
    \/ SaveRejected
    \/ clearChat
    \/ loadChatHistory
    \/ FetchChatHistories
    \/ handleDeleteHistory

SpecChatV2 ==
    InitChatPage
    /\ [][NextChatV2
           /\ UNCHANGED <<onbVars, storeVars, apiVars, voiceVars, authVars>>]_vars

SpecStore ==
    InitChatPage
    /\ [][NextStore /\ UNCHANGED <<onbVars, apiVars, voiceVars, authVars>>]_vars

InitApiPage == Init /\ formData = InitialFormData(<<>>)

SpecApi ==
    InitApiPage
    /\ [][NextApi /\ UNCHANGED <<onbVars, chatVars, storeVars, voiceVars, authVars>>]_vars

SpecVoice ==
    InitChatPage
    /\ [][NextVoice /\ UNCHANGED <<onbVars, chatVars, storeVars, apiVars, authVars>>]_vars

\* the VoiceRecorder component as the only user of the hook
SpecRecorder ==
    InitChatPage
    /\ [][NextRecorder
           /\ UNCHANGED <<onbVars, chatVars, storeVars, apiVars, authVars>>]_vars

\* a page of the app is loaded: the provider starts with loading = true, the
\* identity provider may hold a session from an earlier visit
InitAuthPage ==
    /\ InitChat /\ InitStore /\ InitApi /\ InitVoice
    /\ authToken = NoToken
    /\ currentUser = NoUser
    /\ currentStep = 0
    /\ loading = FALSE
    /\ errors = {}
    /\ formData = InitialFormData(<<>>)
    /\ submitPc = "idle"
    /\ pendingProfile = NoProfile
    /\ editsWhileSaving = 0
    /\ previousCount = 0
    /\ users \in UserCollections
    /\ userProfile = NoProfile
    /\ needsOnboarding = FALSE
    /\ route \in Routes
    /\ authUser \in AuthUsers \cup {NoUser}
    /\ authLoading = TRUE
    /\ checks = <<>>
    /\ guardPush = NoPush

SpecAuth ==
    InitAuthPage
    /\ [][NextAuth
           /\ UNCHANGED <<chatVars, storeVars, apiVars, voiceVars>>]_vars

SpecProfiles ==
    InitChatPage
    /\ [][NextProfiles
           /\ UNCHANGED <<chatVars, storeVars, apiVars, voiceVars, authVars>>]_vars

\* the component, with the browser running every task it has queued: a
\* queued stop event is dispatched
SpecRecorderLive == SpecRecorder /\ WF_voiceVars(StopEventFiresAny)

(***************************************************************************)
(* Claims about the onboarding wizard                                      *)
(***************************************************************************)
Has(obj, k) == k \in DOMAIN obj

\* C1: every stored profile with profileCompleted = true contains
\* industryType only if its employmentStatus is 'salaried' and contains
\* kidsCount only if its dependents.kids flag is true.
C1_OptionalFieldOmission ==
    \A u \in DOMAIN users :
        users[u].profileCompleted =>
            /\ Has(users[u], "industryType")
                  => users[u].employmentStatus = "salaried"
            /\ Has(users[u], "kidsCount") => users[u].dependents.kids

\* a completed profile of a user who is not salaried and has no kids was
\* stored, and it carries neither optional field
C1_Witness ==
    /\ Exists(users, Uid)
    /\ users[Uid].profileCompleted
    /\ users[Uid].employmentStatus # "salaried"
    /\ ~users[Uid].dependents.kids
    /\ ~Has(users[Uid], "industryType")
    /\ ~Has(users[Uid], "kidsCount")

\* the rules of the five steps that the three claims below share, on the
\* profile handed to createUserProfile
RulesPersonalLocation(p) ==
    /\ Trim(p.name) # <<>>
    /\ p.age >= MinAge /\ p.age <= MaxAge
    /\ p.location.state # ""
    /\ Trim(p.location.city) # <<>>

RulesEmploymentFamily(p) ==
    /\ Has(p, "industryType") <=> p.employmentStatus = "salaried"
    /\ p.employmentStatus # "unemployed" => p.monthlyIncome > 0
    /\ (Has(p, "kidsCount") /\ p.kidsCount >= 1) <=> p.dependents.kids

CreateCalled == DOMAIN pendingProfile # {}

\* C2 as stated: createUserProfile is never called with data violating a
\* rule, the insurance rule read as "claim limit > 0 iff its flag is set".
C2_Original ==
    CreateCalled =>
        /\ RulesPersonalLocation(pendingProfile)
        /\ RulesEmploymentFamily(pendingProfile)
        /\ pendingProfile.insuranceCoverage.healthClaimLimit > 0
              <=> pendingProfile.insurance.health
        /\ pendingProfile.insuranceCoverage.lifeClaimLimit > 0
              <=> pendingProfile.insurance.life

\* C2 amended: createUserProfile is never called with data violating a rule
\* of any of the five steps; for insurance the rule is that a claim limit is
\* > 0 whenever its flag is set (a limit entered before its flag was
\* unchecked may stay positive).
C2_ValidatedAtSubmission ==
    CreateCalled =>
        /\ RulesPersonalLocation(pendingProfile)
        /\ RulesEmploymentFamily(pendingProfile)
        /\ pendingProfile.insurance.health
              => pendingProfile.insuranceCoverage.healthClaimLimit > 0
        /\ pendingProfile.insurance.life
              => pendingProfile.insuranceCoverage.lifeClaimLimit > 0

\* a profile was submitted after the user had gone back at least once, with
\* health insurance selected
C2_Witness ==
    /\ submitPc = "creating"
    /\ previousCount > 0
    /\ pendingProfile.insurance.health
    /\ pendingProfile.dependents.kids

\* C3: on the employment step, Next with status 'unemployed' advances
\* without a monthlyIncome error even when the income is 0, and such a
\* profile is submitted and stored; with 'salaried' or 'self-employed' an
\* income <= 0 keeps the wizard on the step with a monthlyIncome error.
C3_IncomeOnlyWhenEmployed ==
    [][ /\ (HandleNextStep /\ currentStep = 1) =>
              IF formData.employmentStatus = "unemployed"
              THEN errors' = {} /\ currentStep' = 2
              ELSE formData.monthlyIncome <= 0 =>
                      "monthlyIncome" \in errors' /\ currentStep' = 1
        /\ (/\ HandleNextSubmit
            /\ currentUser # NoUser
            /\ formData.employmentStatus = "unemployed") =>
              /\ submitPc' = "creating"
              /\ pendingProfile'.monthlyIncome = formData.monthlyIncome
        /\ CreateProfileOk =>
              users'[pendingProfile.uid].monthlyIncome
                  = pendingProfile.monthlyIncome
      ]_vars

\* the profile of an unemployed user with income 0 was stored
C3_Witness ==
    /\ Exists(users, Uid)
    /\ users[Uid].employmentStatus = "unemployed"
    /\ users[Uid].monthlyIncome = 0
    /\ users[Uid].profileCompleted

\* C4: on the insurance step, Next with a selected insurance whose claim
\* limit is <= 0 records an error under that field's key and starts no
\* submission: nothing is handed to createUserProfile, nothing is written.
C4_ClaimLimitBlocksSubmit ==
    [][ ((HandleNextStep \/ HandleNextSubmit) /\ currentStep = NumSteps - 1) =>
          /\ (formData.insurance.health
               /\ formData.insuranceCoverage.healthClaimLimit <= 0) =>
                 /\ "healthClaimLimit" \in errors'
                 /\ UNCHANGED <<submitPc, pendingProfile, users, loading>>
          /\ (formData.insurance.life
               /\ formData.insuranceCoverage.lifeClaimLimit <= 0) =>
                 /\ "lifeClaimLimit" \in errors'
                 /\ UNCHANGED <<submitPc, pendingProfile, users, loading>>
      ]_vars

\* Next was pressed on the insurance step with health insurance selected and
\* claim limit 0: the field error is shown and nothing was written
C4_Witness ==
    /\ currentStep = NumSteps - 1
    /\ formData.insurance.health
    /\ formData.insuranceCoverage.healthClaimLimit = 0
    /\ errors = {"healthClaimLimit"}
    /\ submitPc = "idle"
    /\ ~Exists(users, Uid)

(***************************************************************************)
(* Claims about the chat history                                           *)
(***************************************************************************)
\* the seed greeting followed by strictly alternating user and assistant
\* messages
SeedThenAlternating(chatData) ==
    /\ Len(chatData) >= 1
    /\ chatData[1].role = "assistant"
    /\ chatData[1].content = Greeting
    /\ \A i \in 2..Len(chatData) :
          chatData[i].role = IF i % 2 = 0 THEN "user" ELSE "assistant"

\* C5: for every chat session of an authenticated user, whenever the chat
\* writes the session's history after N successful exchanges, the persisted
\* message list has length 1 + 2N and is the seed greeting followed by
\* strictly alternating user and assistant messages.
C5_Original ==
    [][ SaveWritten =>
          LET sid == call.saveSid
          IN  /\ Exists(chatHistory', sid)
              /\ Len(chatHistory'[sid].chat_data) = 1 + 2 * exchanges'[sid]
              /\ SeedThenAlternating(chatHistory'[sid].chat_data) ]_vars

\* C6: re-saving the message list a session already holds, with
\* saveChatHistory or with updateChatHistory, leaves exactly one record for
\* that session id, with the same message list, and adds no record.
C6_SaveIdempotent ==
    [][ (storeOp'.op \in {"save", "update"} /\ storeOp'.resave)
        => LET sid == storeOp'.session
           IN  /\ Cardinality(RecordsOf(chatHistory', sid)) = 1
               /\ \A new \in RecordsOf(chatHistory', sid) :
                     \E old \in RecordsOf(chatHistory, sid) :
                        chatHistory'[new].chat_data = chatHistory[old].chat_data
               /\ DOMAIN chatHistory' = DOMAIN chatHistory
               /\ \A d \in DOMAIN chatHistory :
                     chatHistory[d].session_id # sid
                        => chatHistory'[d] = chatHistory[d] ]_vars

\* a list was written a second time with updateChatHistory while another
\* session's record was in the store
C6_Witness ==
    /\ storeOp.op = "update"
    /\ storeOp.resave
    /\ Cardinality(DOMAIN chatHistory) > 1
    /\ Cardinality(RecordsOf(chatHistory, storeOp.session)) = 1

(***************************************************************************)
(* Claims about the legacy API client                                      *)
(***************************************************************************)
\* request i of the legacy client fails with HTTP 401
Fails401(i) ==
    /\ requests[i].pc = "sent"
    /\ requests[i].client = "api"
    /\ requests'[i].pc = "rejected"
    /\ requests'[i].status = 401

StreamsOf(c) == {s \in StreamIds : streams[s].call = c}
RecordersOf(c) == {r \in RecorderIds : recorders[r].call = c}

\* C8: a startRecording call that meets a denied microphone permission
\* (known denied when called, or denied in answer to its permission request)
\* obtains no media stream, creates no MediaRecorder, does not set
\* isRecording, has returned, and has reported a permission message (and
\* nothing else) to the error callback.
C8_DeniedStartsNothing ==
    \A c \in CallIds :
        (calls[c].kind = "start" /\ calls[c].denied)
        => /\ calls[c].pc = "done"
           /\ StreamsOf(c) = {}
           /\ RecordersOf(c) = {}
           /\ ~calls[c].setRecording
           /\ calls[c].errors # {}
           /\ calls[c].errors \subseteq PermissionMessages

\* one startRecording was denied by the permission request and a later one
\* found the permission known denied
C8_Witness ==
    \E c, d \in CallIds :
        /\ calls[c].kind = "start" /\ calls[c].denied
        /\ calls[c].errors = {PermissionDeniedMsg}
        /\ calls[d].kind = "start" /\ calls[d].denied
        /\ calls[d].errors = {PermissionRequiredMsg}
        /\ hasPermission = "false"
        /\ ~isRecording

\* C9: for a recording that was cancelled at any point after startRecording
\* was invoked, the completion callback has not fired and, once
\* startRecording has returned, every stream obtained for it is stopped.
C9_Original ==
    \A c \in CallIds :
        calls[c].cancelled
        => /\ calls[c].completions = 0
           /\ calls[c].pc = "done"
                 => \A s \in StreamsOf(c) : ~streams[s].live

\* C10: once VoiceRecorder is unmounted no media track is live and no
\* duration interval is running.
C10_Original ==
    ~mounted
    => /\ \A s \in StreamIds : ~streams[s].live
       /\ \A i \in IntervalIds : ~intervals[i]

\* C11: when startRecording fails after its media stream was obtained (the
\* MediaRecorder constructor or start throws), the call has reported the
\* failure to the error callback, has not set isRecording, and no stream
\* obtained for it is live.
C11_Original ==
    \A c \in CallIds :
        (calls[c].pc = "done" /\ StartFailedMsg \in calls[c].errors)
        => /\ ~calls[c].setRecording
           /\ \A s \in StreamsOf(c) : ~streams[s].live

\* some duration interval is running
IntervalRunning == \E i \in IntervalIds : intervals[i]

\* C12: stopRecording on an active recording leaves isRecording false,
\* recordingDuration 0, the duration interval cleared and the tracks of the
\* stream stopped; and a duration interval runs only while isRecording is
\* true.
C12_Original ==
    /\ [][ stopRecording
             => /\ ~isRecording'
                /\ recordingDuration' = 0
                /\ durationIntervalRef' = NoRef
                /\ durationIntervalRef # NoRef
                      => ~intervals'[durationIntervalRef]
                /\ streamRef' = NoRef
                /\ streamRef # NoRef => ~streams'[streamRef].live ]_vars
    /\ [](IntervalRunning => isRecording)

\* the recording of call c was ended by stopRecording (not cancelled)
Stopped(c) ==
    \E r \in RecordersOf(c) :
        recorders[r].state = "inactive" /\ recorders[r].onstop

\* C13: a recording that was started and then stopped gets its completion
\* callback exactly once, with the blob made of all buffered chunks, and
\* isProcessing is false afterwards; the callback never fires for a
\* recording that was not stopped.  (A stopped recording has its stop event
\* queued or its callback done, and every queued stop event is dispatched.)
C13_CompletesExactlyOnce ==
    /\ [](\A c \in CallIds :
            /\ calls[c].completions <= 1
            /\ calls[c].completions = 1 => Stopped(c) /\ ~isProcessing
            /\ Stopped(c)
               => (calls[c].completions = 1)
                  # (\E r \in RecordersOf(c) : r \in stopEvents))
    /\ [][ \A r \in RecorderIds :
             StopEventFires(r)
             => /\ calls'[recorders[r].call].completions = 1
                /\ deliveredBlob' = audioChunksRef'
                /\ ~isProcessing' ]_vars
    /\ (stopEvents # {}) ~> (stopEvents = {})

\* a stopped recording has been completed with a blob that holds chunks
C13_Witness ==
    \E c \in CallIds :
        /\ Stopped(c)
        /\ calls[c].completions = 1
        /\ stopEvents = {}
        /\ deliveredBlob # {}
        /\ ~isProcessing

\* C14: in hold-to-record mode a press followed by a release leaves the
\* recorder not recording: once the button is released and no startRecording
\* is still in flight, no MediaRecorder is recording.
C14_Original ==
    (~pressed /\ \A c \in CallIds : calls[c].pc = "done")
    => \A r \in RecorderIds : recorders[r].state # "recording"

ProfileComplete(u) == Exists(users, u) /\ users[u].profileCompleted

NoCheckInFlight == \A i \in DOMAIN checks : ~InFlight(i)

\* C16: the auth-page guard sends every authenticated user away from the
\* auth page, to onboarding when the profile is incomplete and to the main
\* app otherwise; the auth page's content is rendered only when nobody is
\* signed in; an authenticated user with an incomplete profile is never sent
\* to the main app.
C16_Original ==
    /\ (route = "/auth" /\ ~authLoading) => currentUser = NoUser
    /\ guardPush.by = "AuthRedirect"
       => /\ currentUser # NoUser
          /\ guardPush.to \in {"/", "/onboarding"}
          /\ ~ProfileComplete(currentUser) => guardPush.to = "/onboarding"

\* C17: protected content is shown only to an authenticated user whose
\* profile record exists with profileCompleted = true; on a protected page
\* an unauthenticated user is redirected to /auth and an authenticated user
\* with a missing or incomplete profile to /onboarding.
C17_Original ==
    /\ ShowsProtectedContent
       => currentUser # NoUser /\ ProfileComplete(currentUser)
    /\ (route = "/" /\ ~authLoading)
       => currentUser # NoUser /\ ProfileComplete(currentUser)
    /\ guardPush.by = "ProtectedRoute"
       => guardPush.to = IF currentUser = NoUser THEN "/auth"
                         ELSE "/onboarding"

\* C18: whenever a read of the user's profile record fails, in
\* checkUserProfile's own read or in the read of
\* FirestoreService.needsOnboarding, needsOnboarding is set to true.
C18_FailedLookupNeedsOnboarding ==
    [][ \A i \in 1..MaxAuthEvents :
          (ProfileReadFails(i) \/ OnboardingRead(i, FALSE))
          => /\ needsOnboarding'
             /\ checks'[i].failed ]_vars

\* a failed lookup of a user whose profile is complete left needsOnboarding
\* true
C18_Witness ==
    /\ NoCheckInFlight
    /\ currentUser # NoUser
    /\ ProfileComplete(currentUser)
    /\ needsOnboarding
    /\ userProfile # NoProfile
    /\ \E i \in DOMAIN checks :
          checks[i].failed /\ checks[i].user = currentUser

\* C19: once no profile check is in flight, userProfile and needsOnboarding
\* are those of the current user (null and false when nobody is signed in;
\* null and true being allowed after a failed read), never those of a user
\* signed in before.
C19_Original ==
    (NoCheckInFlight /\ checks # <<>>)
    => IF currentUser = NoUser
       THEN userProfile = NoProfile /\ ~needsOnboarding
       ELSE /\ userProfile # NoProfile
               => /\ Exists(users, currentUser)
                  /\ userProfile = users[currentUser]
            /\ ~needsOnboarding => ProfileComplete(currentUser)

(***************************************************************************)
(* Claims about sending and persisting chat messages                       *)
(***************************************************************************)
\* C21: at most one chat request is outstanding: while a send has not
\* finished (isLoading) or the input is blank, no step sends a message or
\* appends a user message, and a send in progress always shows isLoading.
C21_OneRequestAtATime ==
    /\ [](sendPc # "idle" => isLoading)
    /\ [][ (isLoading \/ Trim(input) = <<>>)
           => /\ sendCount' = sendCount
              /\ ~(sendPc' = "awaitReply" /\ call' # call)
              /\ (Len(messages') > Len(messages)
                  => messages'[Len(messages')].role # "user") ]_vars

\* a second message is typed while the first request is outstanding
C21_Witness ==
    /\ sendPc = "awaitReply"
    /\ isLoading
    /\ Trim(input) # <<>>
    /\ sendCount = 1
    /\ Len(messages) = 2

\* C22: for an authenticated user, after every successful exchange that
\* returned a session id the store holds a record keyed by that id whose
\* message list is the conversation on screen up to and including the reply,
\* also after sessions were loaded, deleted or started in between: the write
\* saveChatHistoryDirectly issues is one the store can accept (an update is
\* only sent for a record that exists), the list handed to it is the
\* displayed conversation at the reply, and an accepted write leaves exactly
\* that list in the record
C22_Original ==
    /\ [](sendPc = "saving" /\ SaveTakesUpdate
            => CanUpdateChatHistory(chatHistory, call.saveSid))
    /\ [][ ReplyOk /\ sendPc' = "saving"
           => call'.saveMsgs = messages' ]_vars
    /\ [][ SaveWritten
           => /\ Exists(chatHistory', call.saveSid)
              /\ chatHistory'[call.saveSid].chat_data
                     = ToChatMessages(call.saveMsgs) ]_vars

\* C23: a failing history write is swallowed: the step that ends the save
\* of a successful exchange, whether the store accepted the write or not,
\* leaves the message list as it was (the reply stays, no error message is
\* added), sets isLoading to false and leaves handleSend ready to accept
\* the next non-empty input
C23_SaveFailureSwallowed ==
    [][ sendPc = "saving" /\ sendPc' = "idle" /\ ~PageLoad
        => /\ messages' = messages
           /\ isLoading' = FALSE
           /\ CanSend(<<"A">>, isLoading') ]_vars

\* the write of the first exchange was rejected (no record exists), the
\* reply is displayed without an error message, and the next send is on
\* its way
C23_Witness ==
    /\ chatHistory = EmptyObj /\ exchanges[1] = 1 /\ sendCount = 2
    /\ sendPc = "awaitReply"
    /\ Len(messages) = 4
    /\ messages[3] = AssistantMessage("financial_assistant")
    /\ messages[4].role = "user"

(***************************************************************************)
(* Claims about the end of the onboarding wizard and the profile record    *)
(***************************************************************************)

\* C24: when persisting the profile fails on the final step, errors holds
\* exactly the submit error, the step shown and the form data are what they
\* were, loading is false again, no navigation happened and nothing was
\* written, so the Complete Setup button submits again
C24_PersistFailureKeepsWizard ==
    [][ submitPc = "creating" /\ submitPc' = "idle"
        => /\ errors' = {"submit"}
           /\ currentStep' = currentStep
           /\ formData' = formData
           /\ loading' = FALSE
           /\ route' = "/onboarding"
           /\ users' = users
           /\ currentUser' # NoUser ]_vars

\* the save failed and the wizard shows the last step with the submit error
C24_Witness ==
    /\ errors = {"submit"} /\ submitPc = "idle" /\ ~loading
    /\ currentStep = NumSteps - 1
    /\ route = "/onboarding"
    /\ validateStep(formData, currentStep) = {}

\* C25: the navigation to the main app happens only after the profile write
\* succeeded and the refresh of the profile context finished, and at the
\* moment of the navigation needsOnboarding is false for the user
C25_Original ==
    [][ route = "/onboarding" /\ route' = "/"
        => /\ submitPc = "refreshing"
           /\ Exists(users, currentUser)
           /\ users[currentUser].profileCompleted
           /\ needsOnboarding' = FALSE ]_vars

\* C26: once a record exists for a user id, no operation of the profile
\* store deletes it, resets its createdAt or drops one of its fields, and an
\* update leaves every field it does not name (other than updatedAt) as it
\* was
C26_Original ==
    [][ \A u \in DOMAIN users :
          /\ Exists(users', u)
          /\ users'[u].createdAt = users[u].createdAt
          /\ DOMAIN users[u] \subseteq DOMAIN users'[u]
          /\ \A upd \in ProfileUpdates :
                UpdateUserProfileCall(u, upd)
                   => \A k \in DOMAIN users[u] \ (DOMAIN upd \cup {"updatedAt"}) :
                         users'[u][k] = users[u][k] ]_vars

(***************************************************************************)
(* Claims about session threading and the isolation of conversations       *)
(***************************************************************************)

\* C27: on the v2 backend a request carries the session id the component
\* holds; the first request of a conversation (no user message is displayed
\* yet) carries none; a reply to a request of the displayed conversation
\* leaves the component holding the id that reply returned; a failed
\* exchange leaves the held id unchanged
C27_Original ==
    /\ [][ sendCount' = sendCount + 1 /\ apiVersion = "v2"
           => /\ call'.sessionId = sessionId
              /\ (\A i \in 1..Len(messages) : messages[i].role # "user")
                    => call'.sessionId = NoSession ]_vars
    /\ [][ (ReplyOk /\ call.version = "v2"
              /\ messages = Append(call.messages, call.userMessage))
           => /\ call.sessionId # NoSession => sessionId' = call.sessionId
              /\ call.sessionId = NoSession => sessionId' \in issued' \ issued ]_vars
    /\ [][ ReplyFail => sessionId' = sessionId ]_vars

\* C28: when New Chat or a loaded session replaced the displayed
\* conversation while a request was outstanding, the late reply is not
\* appended to the list now displayed and does not change the session id
\* now held; and every list an accepted write leaves in a record comes from
\* one conversation: the seed followed by alternating user and assistant
\* messages
C28_Original ==
    /\ [][ (ReplyOk /\ messages # Append(call.messages, call.userMessage))
           => /\ messages' = messages
              /\ sessionId' = sessionId ]_vars
    /\ [][ SaveWritten
           => SeedThenAlternating(chatHistory'[call.saveSid].chat_data) ]_vars

(***************************************************************************)
(* Claims about the recorder's resources and the permission gate           *)
(***************************************************************************)

\* C29: every media stream that is still live is the one streamRef refers
\* to, and every duration interval that is still running is the one
\* durationIntervalRef refers to: whatever was acquired is referenced by
\* the hook or has been released
C29_Original ==
    /\ \A s \in StreamIds : streams[s].live => s = streamRef
    /\ \A i \in IntervalIds : intervals[i] => i = durationIntervalRef

\* C30: a startRecording call asks for the permission only when the
\* permission state is unknown; isRecording implies that the permission
\* state is granted; and while the state is denied no recording starts
C30_Original ==
    /\ [][ (Len(calls') > Len(calls)
              /\ calls'[Len(calls')].kind = "start"
              /\ calls'[Len(calls')].pc = "awaitPermission")
           => hasPermission = "null" ]_vars
    /\ [](isRecording => hasPermission = "true")
    /\ [][ hasPermission = "false"
           => /\ ~(~isRecording /\ isRecording')
              /\ Len(recorders') = Len(recorders) ]_vars

====
